---- MODULE Spec2Model ----
(***************************************************************************)
(* Model of the Go snippets of the blog repository:                        *)
(*   - test_with_external_dependency/mongo.go, mongo_mock.go and their      *)
(*     test (the Humble Object article): MongoRepo, MongoCaller, MockMongo; *)
(*   - the entity / use-case listings of the hexagonal architecture         *)
(*     article: entity.NewUser and services.UserUseCase.CreateUser.         *)
(***************************************************************************)
EXTENDS Integers, Sequences, FiniteSets, TLC

VARIABLES
    repo,       \* the *MongoRepo the caller holds (nil before construction)
    builtBy,    \* which constructor produced repo: "none", "NewMockMongo", "NewMongoRepo"
    last,       \* the last call made on the mongo snippet, with what it returned
    prev,       \* the CreateUser call made before it on the same repository, if any
    params,     \* entity: the UserParams handed to NewUser
    newUser,    \* entity: what NewUser returned for params
    useCase,    \* services: the UserUseCase (its userRepository)
    ucLast,     \* services: the last UserUseCase.CreateUser call and its result
    logged      \* services: the lines written by log.Printf, oldest first

vars == <<repo, builtBy, last, prev, params, newUser, useCase, ucLast, logged>>

----------------------------------------------------------------------------
(* Bounds of the model.                                                     *)

\* ObjectIDs are 0..MaxObjectID; 0 is primitive.NilObjectID (the zero value).
MaxObjectID == 1

\* The log of the use case keeps at most MaxLog lines.
MaxLog == 2

----------------------------------------------------------------------------
(* Go errors.  An error value is [id, text, unwrap]: id stands for the      *)
(* identity of the value (errors.New returns a distinct pointer per call),  *)
(* text is what Error() returns and unwrap holds the wrapped error, if any. *)

NoError == [id |-> "nil", text |-> "", unwrap |-> <<>>]

ErrorsNew(id, text) == [id |-> id, text |-> text, unwrap |-> <<>>]

\* fmt.Errorf("%w: %s", w, e): wraps w only; e contributes its text.
Errorf(w, e) ==
    [id |-> "*fmt.wrapError", text |-> w.text \o ": " \o e.text, unwrap |-> <<w>>]

\* errors.Is(err, target): walks the Unwrap chain comparing with ==.
RECURSIVE ErrorsIs(_, _)
ErrorsIs(err, target) ==
    IF err = target THEN TRUE
    ELSE IF err.unwrap = <<>> THEN FALSE
    ELSE ErrorsIs(err.unwrap[1], target)

ErrConnectingToMongoDatabase ==
    ErrorsNew("ErrConnectingToMongoDatabase", "error connecting to mongo database")

ErrInsertingUser == ErrorsNew("ErrInsertingUser", "error inserting user")

\* Errors of the mongo driver and of context, as the real collection returns them.
ErrServerSelection == ErrorsNew("topology.ServerSelectionError", "server selection error")
ErrContextCanceled == ErrorsNew("context.Canceled", "context canceled")
ErrDeadlineExceeded == ErrorsNew("context.DeadlineExceeded", "context deadline exceeded")
ErrMarshal == ErrorsNew("bson.MarshalError", "cannot marshal nil document")
ErrParseURI == ErrorsNew("connstring.ParseError", "error parsing uri")

----------------------------------------------------------------------------
(* Values of mongo.go.                                                      *)

emailWitchTriggersError == "error@error.com"

ObjectIDs == 0..MaxObjectID
Names     == {"", "John"}
Emails    == {"", "john@example.com", emailWitchTriggersError}
Passwords == {"", "password"}

\* type User struct
Users == [ID : ObjectIDs, Name : Names, Email : Emails, Password : Passwords]

ZeroUser == [ID |-> 0, Name |-> "", Email |-> "", Password |-> ""]

\* A *User: nil, or a pointer to a User struct.
NilUser == [isNil |-> TRUE, val |-> ZeroUser]
PtrTo(u) == [isNil |-> FALSE, val |-> u]
UserPtrs == {NilUser} \cup {PtrTo(u) : u \in Users}

\* An interface{} document: its dynamic type, and the value it holds.
PtrDoc(p) == [dyn |-> "*User", isNil |-> p.isNil, val |-> p.val]
ValDoc(u) == [dyn |-> "User", isNil |-> FALSE, val |-> u]
MapDoc(u) == [dyn |-> "bson.M", isNil |-> FALSE, val |-> u]
NilDoc    == [dyn |-> "nil", isNil |-> TRUE, val |-> ZeroUser]

\* context.Context, by what ctx.Err() reports.
Contexts == {"live", "canceled", "deadline"}

MongoURIs == {"mongodb://localhost:27017", "localhost:27017"}

\* Values a MongoCaller field can hold: [type, db, coll].
NilCaller     == [type |-> "nil", db |-> "", coll |-> ""]
MockMongoVal  == [type |-> "MockMongo", db |-> "", coll |-> ""]

\* client.Database(dbName).Collection(collectionName)
Collection(dbName, collectionName) ==
    [type |-> "*mongo.Collection", db |-> dbName, coll |-> collectionName]

\* type MongoRepo struct { mongoCaller MongoCaller }, behind a pointer.
NilRepo == [isNil |-> TRUE, type |-> "*MongoRepo", mongoCaller |-> NilCaller]
MongoRepo(caller) == [isNil |-> FALSE, type |-> "*MongoRepo", mongoCaller |-> caller]

\* The method set of each type of the snippet.
MethodSet(type) ==
    CASE type = "*MongoRepo"        -> {"CreateUser"}
      [] type = "MockMongo"         -> {"InsertOne"}
      [] type = "*mongo.Collection" -> {"InsertOne"}
      [] OTHER                      -> {}

\* type MongoCaller interface { InsertOne(...) }
MongoCallerMethods == {"InsertOne"}

\* A value of this type can be used where a MongoCaller is expected.
ImplementsMongoCaller(type) == MongoCallerMethods \subseteq MethodSet(type)

\* *mongo.InsertOneResult
NilResult == [isNil |-> TRUE, InsertedID |-> 0]
InsertOneResult(id) == [isNil |-> FALSE, InsertedID |-> id]

----------------------------------------------------------------------------
(* MockMongo.InsertOne.  The value is what the call produces: whether it    *)
(* panicked, the result and error returned, and the document as the call    *)
(* leaves it (the document is a pointer, so the callee could write to it).  *)

InsertRet(res, err, doc) == [panicked |-> FALSE, res |-> res, err |-> err, doc |-> doc]
InsertPanic(doc) == [panicked |-> TRUE, res |-> NilResult, err |-> NoError, doc |-> doc]

\* The mock as first written, before the sentinel email was added.
MockMongoInsertOne_NoSentinel(ctx, document) ==
    IF document.dyn # "*User"
    THEN InsertRet(NilResult, ErrInsertingUser, document)
    ELSE IF document.isNil
    THEN InsertPanic(document)
    ELSE InsertRet(InsertOneResult(document.val.ID), NoError, document)

\* A mock that also rejects a user without a name.
MockMongoInsertOne_NameRequired(ctx, document) ==
    IF document.dyn # "*User"
    THEN InsertRet(NilResult, ErrInsertingUser, document)
    ELSE IF document.isNil
    THEN InsertPanic(document)
    ELSE IF document.val.Email = emailWitchTriggersError \/ document.val.Name = ""
    THEN InsertRet(NilResult, ErrInsertingUser, document)
    ELSE InsertRet(InsertOneResult(document.val.ID), NoError, document)

\* A mock that returns a fixed identifier.
MockMongoInsertOne_FixedID(ctx, document) ==
    IF document.dyn # "*User"
    THEN InsertRet(NilResult, ErrInsertingUser, document)
    ELSE IF document.isNil
    THEN InsertPanic(document)
    ELSE IF document.val.Email = emailWitchTriggersError
    THEN InsertRet(NilResult, ErrInsertingUser, document)
    ELSE InsertRet(InsertOneResult(0), NoError, document)

\* A mock that honours the context, as the driver does.
MockMongoInsertOne_CtxAware(ctx, document) ==
    IF document.dyn # "*User"
    THEN InsertRet(NilResult, ErrInsertingUser, document)
    ELSE IF document.isNil
    THEN InsertPanic(document)
    ELSE IF ctx = "canceled"
    THEN InsertRet(NilResult, ErrContextCanceled, document)
    ELSE IF ctx = "deadline"
    THEN InsertRet(NilResult, ErrDeadlineExceeded, document)
    ELSE IF document.val.Email = emailWitchTriggersError
    THEN InsertRet(NilResult, ErrInsertingUser, document)
    ELSE InsertRet(InsertOneResult(document.val.ID), NoError, document)

\* A mock that remembers: like a collection with a unique _id, it refuses the
\* ID of the user the previous call inserted.
MockMongoInsertOne_Remembers(ctx, document) ==
    IF document.dyn # "*User"
    THEN InsertRet(NilResult, ErrInsertingUser, document)
    ELSE IF document.isNil
    THEN InsertPanic(document)
    ELSE IF document.val.Email = emailWitchTriggersError
    THEN InsertRet(NilResult, ErrInsertingUser, document)
    ELSE IF last.op = "CreateUser" /\ ~last.panicked /\ last.err = NoError
            /\ last.doc.val.ID = document.val.ID
    THEN InsertRet(NilResult, ErrInsertingUser, document)
    ELSE InsertRet(InsertOneResult(document.val.ID), NoError, document)

\* A mock without the type assertion: it reads the email of any document.
MockMongoInsertOne_AnyDocument(ctx, document) ==
    IF document.isNil
    THEN IF document.dyn = "*User" THEN InsertPanic(document)
         ELSE InsertRet(NilResult, ErrInsertingUser, document)
    ELSE IF document.val.Email = emailWitchTriggersError
    THEN InsertRet(NilResult, ErrInsertingUser, document)
    ELSE InsertRet(InsertOneResult(document.val.ID), NoError, document)

MockMongoInsertOne(ctx, document) ==
    IF document.dyn # "*User"
    THEN InsertRet(NilResult, ErrInsertingUser, document)
    ELSE IF document.isNil
    THEN InsertPanic(document)      \* doc.Email on a nil *User
    ELSE IF document.val.Email = emailWitchTriggersError
    THEN InsertRet(NilResult, ErrInsertingUser, document)
    ELSE InsertRet(InsertOneResult(document.val.ID), NoError, document)

\* (*mongo.Collection).InsertOne of the driver: the outcomes the server, the
\* network and the context allow.
CollectionInsertOne(ctx, document) ==
    IF document.dyn = "nil" \/ document.isNil
    THEN {InsertRet(NilResult, ErrMarshal, document)}
    ELSE IF ctx = "canceled"
    THEN {InsertRet(NilResult, ErrContextCanceled, document)}
    ELSE IF ctx = "deadline"
    THEN {InsertRet(NilResult, ErrDeadlineExceeded, document)}
    ELSE {InsertRet(InsertOneResult(document.val.ID), NoError, document),
          InsertRet(NilResult, ErrServerSelection, document)}

\* m.mongoCaller.InsertOne(ctx, user): dynamic dispatch on the caller held.
InsertOne(caller, ctx, document) ==
    IF caller.type = "MockMongo"
    THEN {MockMongoInsertOne(ctx, document)}
    ELSE CollectionInsertOne(ctx, document)

\* The name under which a call on the caller shows in the trace of calls.
InsertOneName(caller) ==
    IF caller.type = "MockMongo" THEN "MockMongo.InsertOne"
    ELSE "mongo.Collection.InsertOne"

----------------------------------------------------------------------------
(* Constructors and MongoRepo.CreateUser.  Each value records the calls     *)
(* made on the way: the function, the document handed over, and what the   *)
(* call gave back.                                                          *)

TraceCall(fn, doc, panicked, res, err) ==
    [fn |-> fn, doc |-> doc, panicked |-> panicked, res |-> res, err |-> err]

\* A call of the driver that takes no document.
DriverCall(fn, err) == TraceCall(fn, NilDoc, FALSE, NilResult, err)

\* A NewMockMongo that hands out the real collection.
NewMockMongo_RealCollection == MongoRepo(Collection("test", "users"))

\* func NewMockMongo() *MongoRepo
NewMockMongo == MongoRepo(MockMongoVal)

\* mongo.Connect(ctx, options.Client().ApplyURI(mongoURI)): fails on a URI
\* without scheme; otherwise the driver may or may not report an error.
MongoConnect(ctx, mongoURI) ==
    IF mongoURI = "mongodb://localhost:27017"
    THEN IF ctx = "live" THEN {NoError, ErrServerSelection}
         ELSE {NoError, IF ctx = "canceled" THEN ErrContextCanceled ELSE ErrDeadlineExceeded}
    ELSE {ErrParseURI}

dbName == "test"
collectionName == "users"

\* A NewMongoRepo that forgets to set the mongoCaller field.
NewMongoRepo_FieldUnset(ctx, mongoURI, connectErr) ==
    IF connectErr # NoError
    THEN [repo  |-> NilRepo,
          err   |-> Errorf(ErrConnectingToMongoDatabase, connectErr),
          calls |-> <<DriverCall("mongo.Connect", connectErr)>>]
    ELSE [repo  |-> MongoRepo(NilCaller),
          err   |-> NoError,
          calls |-> <<DriverCall("mongo.Connect", NoError),
                      DriverCall("mongo.Client.Database", NoError),
                      DriverCall("mongo.Database.Collection", NoError)>>]

\* A NewMongoRepo that passes the two names in the wrong order.
NewMongoRepo_NamesSwapped(ctx, mongoURI, connectErr) ==
    IF connectErr # NoError
    THEN [repo  |-> NilRepo,
          err   |-> Errorf(ErrConnectingToMongoDatabase, connectErr),
          calls |-> <<DriverCall("mongo.Connect", connectErr)>>]
    ELSE [repo  |-> MongoRepo(Collection("users", "test")),
          err   |-> NoError,
          calls |-> <<DriverCall("mongo.Connect", NoError),
                      DriverCall("mongo.Client.Database", NoError),
                      DriverCall("mongo.Database.Collection", NoError)>>]

\* func NewMongoRepo(ctx, mongoURI) (*MongoRepo, error), given Connect's error.
NewMongoRepo(ctx, mongoURI, connectErr) ==
    IF connectErr # NoError
    THEN [repo  |-> NilRepo,
          err   |-> Errorf(ErrConnectingToMongoDatabase, connectErr),
          calls |-> <<DriverCall("mongo.Connect", connectErr)>>]
    ELSE [repo  |-> MongoRepo(Collection(dbName, collectionName)),
          err   |-> NoError,
          calls |-> <<DriverCall("mongo.Connect", NoError),
                      DriverCall("mongo.Client.Database", NoError),
                      DriverCall("mongo.Database.Collection", NoError)>>]

\* A CreateUser whose test of err is inverted.
CreateUserOn_Inverted(m, ctx, user, r) ==
    [panicked |-> r.panicked,
     err |-> IF r.panicked \/ r.err # NoError THEN NoError
             ELSE Errorf(ErrInsertingUser, r.err),
     calls |-> <<TraceCall(InsertOneName(m.mongoCaller), PtrDoc(user),
                           r.panicked, r.res, r.err)>>,
     repo |-> m, user |-> [isNil |-> r.doc.isNil, val |-> r.doc.val]]

\* A CreateUser that returns InsertOne's error as it is, unwrapped.
CreateUserOn_Unwrapped(m, ctx, user, r) ==
    [panicked |-> r.panicked,
     err |-> IF r.panicked THEN NoError ELSE r.err,
     calls |-> <<TraceCall(InsertOneName(m.mongoCaller), PtrDoc(user),
                           r.panicked, r.res, r.err)>>,
     repo |-> m, user |-> [isNil |-> r.doc.isNil, val |-> r.doc.val]]

\* A CreateUser that blanks the password of the user it was given.
CreateUserOn_ClearsPassword(m, ctx, user, r) ==
    [panicked |-> r.panicked,
     err |-> IF r.panicked \/ r.err = NoError THEN NoError
             ELSE Errorf(ErrInsertingUser, r.err),
     calls |-> <<TraceCall(InsertOneName(m.mongoCaller), PtrDoc(user),
                           r.panicked, r.res, r.err)>>,
     repo |-> m,
     user |-> [isNil |-> r.doc.isNil, val |-> [r.doc.val EXCEPT !.Password = ""]]]

\* func (m *MongoRepo) CreateUser(ctx, user) error, given what InsertOne
\* produced (r).  The value holds the error returned, the calls made, and
\* the repository and the User as the call leaves them.
CreateUserOn(m, ctx, user, r) ==
    IF r.panicked
    THEN [panicked |-> TRUE, err |-> NoError,
          calls |-> <<TraceCall(InsertOneName(m.mongoCaller), PtrDoc(user),
                                r.panicked, r.res, r.err)>>,
          repo |-> m, user |-> [isNil |-> r.doc.isNil, val |-> r.doc.val]]
    ELSE [panicked |-> FALSE,
          err |-> IF r.err # NoError THEN Errorf(ErrInsertingUser, r.err) ELSE NoError,
          calls |-> <<TraceCall(InsertOneName(m.mongoCaller), PtrDoc(user),
                                r.panicked, r.res, r.err)>>,
          repo |-> m, user |-> [isNil |-> r.doc.isNil, val |-> r.doc.val]]

\* All the ways CreateUser can go.  On a nil repository, or one whose
\* mongoCaller is nil, m.mongoCaller.InsertOne dereferences nil and panics.
CreateUser(m, ctx, user) ==
    IF m.isNil \/ m.mongoCaller.type = "nil"
    THEN {[panicked |-> TRUE, err |-> NoError, calls |-> <<>>, repo |-> m, user |-> user]}
    ELSE {CreateUserOn(m, ctx, user, r) : r \in InsertOne(m.mongoCaller, ctx, PtrDoc(user))}

----------------------------------------------------------------------------
(* The state machine of the mongo snippet: a caller (the test) builds a     *)
(* repository and calls it.                                                 *)

\* The record of one call: the operation, the repository it was made on and
\* the constructor that built it, the inputs, and everything that came back.
CallRec(op, on, by, ctx, uri, doc, panicked, res, err, calls, docAfter) ==
    [op |-> op, on |-> on, by |-> by, ctx |-> ctx, uri |-> uri, doc |-> doc,
     panicked |-> panicked, res |-> res, err |-> err, calls |-> calls,
     docAfter |-> docAfter]

NoCall == CallRec("none", NilRepo, "none", "live", "", NilDoc, FALSE, NilResult,
                  NoError, <<>>, NilDoc)

\* What is kept of the call before the last: its inputs and how it ended.
Kept(c) ==
    [op |-> c.op, by |-> c.by, ctx |-> c.ctx, doc |-> c.doc,
     panicked |-> c.panicked, err |-> c.err]

NoPrev == Kept(NoCall)

MongoInit ==
    /\ repo = NilRepo
    /\ builtBy = "none"
    /\ last = NoCall
    /\ prev = NoPrev

\* repo := NewMockMongo()
CallNewMockMongo ==
    /\ repo' = NewMockMongo
    /\ builtBy' = "NewMockMongo"
    /\ prev' = NoPrev
    /\ last' = CallRec("NewMockMongo", repo, builtBy, "live", "", NilDoc, FALSE,
                       NilResult, NoError, <<>>, NilDoc)
    /\ UNCHANGED <<params, newUser, useCase, ucLast, logged>>

\* repo, err := NewMongoRepo(ctx, mongoURI)
CallNewMongoRepo ==
    \E ctx \in Contexts, uri \in MongoURIs :
      \E connectErr \in MongoConnect(ctx, uri) :
        LET r == NewMongoRepo(ctx, uri, connectErr) IN
        /\ repo' = r.repo
        /\ builtBy' = "NewMongoRepo"
        /\ prev' = NoPrev
        /\ last' = CallRec("NewMongoRepo", repo, builtBy, ctx, uri, NilDoc, FALSE,
                           NilResult, r.err, r.calls, NilDoc)
        /\ UNCHANGED <<params, newUser, useCase, ucLast, logged>>

\* err := repo.CreateUser(ctx, user)
CallCreateUser ==
    \E ctx \in Contexts, user \in UserPtrs :
      \E r \in CreateUser(repo, ctx, user) :
        /\ repo' = r.repo
        /\ builtBy' = builtBy
        /\ prev' = IF last.op = "CreateUser" THEN Kept(last) ELSE NoPrev
        /\ last' = CallRec("CreateUser", repo, builtBy, ctx, "", PtrDoc(user),
                           r.panicked, NilResult, r.err, r.calls, PtrDoc(r.user))
        /\ UNCHANGED <<params, newUser, useCase, ucLast, logged>>

\* A direct call of the mock, MockMongo{}.InsertOne(ctx, document), with any
\* document an interface{} can hold.
MockDocuments ==
    {PtrDoc(p) : p \in UserPtrs} \cup {ValDoc(u) : u \in Users}
        \cup {MapDoc(u) : u \in Users} \cup {NilDoc}

InsertOneInit ==
    /\ repo = NewMockMongo
    /\ builtBy = "NewMockMongo"
    /\ prev = NoPrev
    /\ \E ctx \in Contexts, document \in MockDocuments :
          last = CallRec("pending", repo, builtBy, ctx, "", document, FALSE,
                         NilResult, NoError, <<>>, document)

\* res, err := MockMongo{}.InsertOne(ctx, document)
CallMockInsertOne ==
    /\ last.op = "pending"
    /\ LET r == MockMongoInsertOne(last.ctx, last.doc) IN
         last' = CallRec("InsertOne", repo, builtBy, last.ctx, "", last.doc,
                         r.panicked, r.res, r.err, <<>>, r.doc)
    /\ UNCHANGED <<repo, builtBy, prev, params, newUser, useCase, ucLast, logged>>

----------------------------------------------------------------------------
(* entity.NewUser (hexagonal architecture article).  Go strings that are    *)
(* parsed are sequences of one-character strings.                           *)

Str_uuid      == <<"6", "b", "a", "7", "b", "8", "1", "0", "-", "9", "d", "a", "d", "-", "1", "1", "d", "1", "-", "8", "0", "b", "4", "-", "0", "0", "c", "0", "4", "f", "d", "4", "3", "0", "c", "8">>
Str_uuidUpper == <<"6", "B", "A", "7", "B", "8", "1", "0", "-", "9", "D", "A", "D", "-", "1", "1", "D", "1", "-", "8", "0", "B", "4", "-", "0", "0", "C", "0", "4", "F", "D", "4", "3", "0", "C", "8">>
Str_uuidOther == <<"0", "0", "0", "0", "0", "0", "0", "0", "-", "0", "0", "0", "0", "-", "0", "0", "0", "0", "-", "0", "0", "0", "0", "-", "0", "0", "0", "0", "0", "0", "0", "0", "0", "0", "0", "1">>
Str_uuidHex32 == <<"6", "b", "a", "7", "b", "8", "1", "0", "9", "d", "a", "d", "1", "1", "d", "1", "8", "0", "b", "4", "0", "0", "c", "0", "4", "f", "d", "4", "3", "0", "c", "8">>
Str_uuidUrn   == <<"u", "r", "n", ":", "u", "u", "i", "d", ":">> \o Str_uuid
Str_uuidBadUrn == <<"u", "r", "n", "-", "u", "u", "i", "d", ":">> \o Str_uuid
Str_uuidBrace == <<"{">> \o Str_uuid \o <<"}">>
Str_uuidNoDash == <<"6", "b", "a", "7", "b", "8", "1", "0", "+", "9", "d", "a", "d", "-", "1", "1", "d", "1", "-", "8", "0", "b", "4", "-", "0", "0", "c", "0", "4", "f", "d", "4", "3", "0", "c", "8">>
Str_uuidNotHex == <<"6", "b", "a", "7", "b", "8", "1", "0", "-", "9", "d", "a", "d", "-", "1", "1", "d", "1", "-", "8", "0", "b", "4", "-", "0", "0", "c", "0", "4", "f", "d", "4", "3", "0", "c", "g">>
Str_uuidShort == <<"6", "b", "a", "7", "b", "8", "1", "0">>

UserIDStrings ==
    {<<>>, Str_uuid, Str_uuidUpper, Str_uuidOther, Str_uuidHex32, Str_uuidUrn,
     Str_uuidBadUrn, Str_uuidBrace, Str_uuidNoDash, Str_uuidNotHex, Str_uuidShort}

Str_john      == <<"j", "o", "h", "n", "@", "e", "x", "a", "m", "p", "l", "e", ".", "c", "o", "m">>
Str_johnB     == <<"j", ".", "d", "@", "b">>
Str_johnNamed == <<"J", "o", "h", "n", " ", "D", "o", "e", " ", "<", "j", "o", "h", "n", "@", "e", "x", "a", "m", "p", "l", "e", ".", "c", "o", "m", ">">>
Str_johnAngle == <<"<", "j", "o", "h", "n", "@", "e", "x", "a", "m", "p", "l", "e", ".", "c", "o", "m", ">">>
Str_johnSpace == <<" ", "j", "o", "h", "n", "@", "e", "x", "a", "m", "p", "l", "e", ".", "c", "o", "m", " ">>
Str_noAt      == <<"j", "o", "h", "n", ".", "e", "x", "a", "m", "p", "l", "e", ".", "c", "o", "m">>
Str_noDomain  == <<"j", "o", "h", "n", "@">>
Str_noLocal   == <<"@", "e", "x", "a", "m", "p", "l", "e", ".", "c", "o", "m">>
Str_twoDots   == <<"j", "o", "h", "n", ".", ".", "d", "o", "e", "@", "e", "x", "a", "m", "p", "l", "e", ".", "c", "o", "m">>
Str_twoAts    == <<"j", "o", "h", "n", "@", "d", "o", "e", "@", "e", "x", "a", "m", "p", "l", "e", ".", "c", "o", "m">>
Str_unclosed  == <<"J", "o", "h", "n", " ", "<", "j", "o", "h", "n", "@", "e", "x", "a", "m", "p", "l", "e", ".", "c", "o", "m">>

EmailStrings ==
    {<<>>, Str_john, Str_johnB, Str_johnNamed, Str_johnAngle, Str_johnSpace, Str_noAt,
     Str_noDomain, Str_noLocal, Str_twoDots, Str_twoAts, Str_unclosed}

UsernameStrings == {<<>>, <<"j", "o", "h", "n">>, <<" ">>}

\* var ( ErrInvalidUserID, ErrInvalidEmail, ErrInvalidUsername )
ErrInvalidUserID   == ErrorsNew("entity.ErrInvalidUserID", "invalid user id")
ErrInvalidEmail    == ErrorsNew("entity.ErrInvalidEmail", "invalid email")
ErrInvalidUsername == ErrorsNew("entity.ErrInvalidUsername", "invalid username")

\* uuid.Parse of github.com/google/uuid.  xtob: the value of a hex digit, -1
\* when it is none.
HexVal(c) ==
    CASE c = "0" -> 0 [] c = "1" -> 1 [] c = "2" -> 2 [] c = "3" -> 3
      [] c = "4" -> 4 [] c = "5" -> 5 [] c = "6" -> 6 [] c = "7" -> 7
      [] c = "8" -> 8 [] c = "9" -> 9
      [] c \in {"a", "A"} -> 10 [] c \in {"b", "B"} -> 11 [] c \in {"c", "C"} -> 12
      [] c \in {"d", "D"} -> 13 [] c \in {"e", "E"} -> 14 [] c \in {"f", "F"} -> 15
      [] OTHER -> -1

ZeroUUID == [i \in 1..16 |-> 0]

UUIDOk(u)    == [uuid |-> u, err |-> NoError]
UUIDFail(text) == [uuid |-> ZeroUUID, err |-> ErrorsNew("uuid.error", text)]

\* Offsets (from 0) of the 16 hex pairs in xxxxxxxx-xxxx-xxxx-xxxx-xxxxxxxxxxxx.
DashedOffsets == <<0, 2, 4, 6, 9, 11, 14, 16, 19, 21, 24, 26, 28, 30, 32, 34>>
PlainOffsets  == [i \in 1..16 |-> 2 * (i - 1)]

UUIDFromPairs(s, offs) ==
    IF \E i \in 1..16 : HexVal(s[offs[i] + 1]) < 0 \/ HexVal(s[offs[i] + 2]) < 0
    THEN UUIDFail("invalid UUID format")
    ELSE UUIDOk([i \in 1..16 |-> 16 * HexVal(s[offs[i] + 1]) + HexVal(s[offs[i] + 2])])

UUIDDashed(s) ==
    IF s[9] # "-" \/ s[14] # "-" \/ s[19] # "-" \/ s[24] # "-"
    THEN UUIDFail("invalid UUID format")
    ELSE UUIDFromPairs(s, DashedOffsets)

ToLower(c) ==
    CASE c = "U" -> "u" [] c = "R" -> "r" [] c = "N" -> "n" [] c = "I" -> "i"
      [] c = "D" -> "d" [] OTHER -> c

UrnPrefix == <<"u", "r", "n", ":", "u", "u", "i", "d", ":">>

UUIDParse(s) ==
    CASE Len(s) = 36 -> UUIDDashed(s)
      [] Len(s) = 45 ->
            IF [i \in 1..9 |-> ToLower(s[i])] # UrnPrefix
            THEN UUIDFail("invalid urn prefix")
            ELSE UUIDDashed(SubSeq(s, 10, 45))
      [] Len(s) = 38 -> UUIDDashed(SubSeq(s, 2, 38))
      [] Len(s) = 32 -> UUIDFromPairs(s, PlainOffsets)
      [] OTHER -> UUIDFail("invalid UUID length")

\* mail.ParseAddress of net/mail, for addresses without quoted strings,
\* comments, groups or domain literals.
NotAtext == {"(", ")", "<", ">", "[", "]", ":", ";", "@", "\\", ",", "\"", " "}

\* isAtext(c, dot)
IsAtext(c, dot) == IF c = "." THEN dot ELSE c \notin NotAtext

\* The first position at or after i that is not part of an atom (dots allowed).
RECURSIVE AtomEnd(_, _)
AtomEnd(s, i) ==
    IF i <= Len(s) /\ IsAtext(s[i], TRUE) THEN AtomEnd(s, i + 1) ELSE i

\* skipSpace
RECURSIVE SkipSpace(_, _)
SkipSpace(s, i) ==
    IF i <= Len(s) /\ s[i] = " " THEN SkipSpace(s, i + 1) ELSE i

\* consumeAtom(dot = true, permissive = false) accepts this atom.
DotAtomOk(a) ==
    /\ Len(a) > 0
    /\ a[1] # "."
    /\ a[Len(a)] # "."
    /\ \A i \in 1..(Len(a) - 1) : ~(a[i] = "." /\ a[i + 1] = ".")

AddrNone == [isNil |-> TRUE, Name |-> <<>>, Address |-> <<>>]
MailAddress(name, spec) == [isNil |-> FALSE, Name |-> name, Address |-> spec]

MailFail(text) == [ok |-> FALSE, next |-> 0, spec |-> <<>>, text |-> text]

\* consumeAddrSpec from position i: local-part "@" domain; next is the
\* position after the domain.
ConsumeAddrSpec(s, i) ==
    LET e1     == AtomEnd(s, i)
        local  == SubSeq(s, i, e1 - 1)
        d0     == SkipSpace(s, e1 + 1)
        e2     == AtomEnd(s, d0)
        domain == SubSeq(s, d0, e2 - 1)
    IN  IF i > Len(s) THEN MailFail("mail: no addr-spec")
        ELSE IF ~DotAtomOk(local) THEN MailFail("mail: invalid string")
        ELSE IF e1 > Len(s) \/ s[e1] # "@" THEN MailFail("mail: missing @ in addr-spec")
        ELSE IF d0 > Len(s) THEN MailFail("mail: no domain in addr-spec")
        ELSE IF ~DotAtomOk(domain) THEN MailFail("mail: invalid string")
        ELSE [ok |-> TRUE, next |-> e2, spec |-> local \o <<"@">> \o domain, text |-> ""]

\* consumePhrase from position i: the words (atoms) up to the first character
\* that starts none, joined by single spaces.
RECURSIVE ConsumePhrase(_, _, _, _)
ConsumePhrase(s, i, name, nwords) ==
    LET j == SkipSpace(s, i)
        e == AtomEnd(s, j)
    IN  IF j > Len(s) THEN [ok |-> TRUE, next |-> j, name |-> name]
        ELSE IF e = j
        THEN [ok |-> nwords > 0, next |-> j, name |-> name]
        ELSE ConsumePhrase(s, e,
                 IF nwords = 0 THEN SubSeq(s, j, e - 1)
                 ELSE name \o <<" ">> \o SubSeq(s, j, e - 1),
                 nwords + 1)

MailOk(a)      == [addr |-> a, err |-> NoError]
MailErr(text)  == [addr |-> AddrNone, err |-> ErrorsNew("mail.error", text)]

\* parseSingleAddress, after the address proper: only space may follow.
MailEnd(s, next, a) ==
    IF SkipSpace(s, next) <= Len(s)
    THEN MailErr("mail: expected single address")
    ELSE MailOk(a)

\* The name-addr form: [display-name] "<" addr-spec ">".
MailNameAddr(s, i) ==
    LET ph == IF s[i] # "<" THEN ConsumePhrase(s, i, <<>>, 0)
              ELSE [ok |-> TRUE, next |-> i, name |-> <<>>]
        lt == SkipSpace(s, ph.next)
        sp == ConsumeAddrSpec(s, lt + 1)
    IN  IF ~ph.ok THEN MailErr("mail: missing word in phrase")
        ELSE IF lt > Len(s) \/ s[lt] # "<" THEN MailErr("mail: no angle-addr")
        ELSE IF ~sp.ok THEN MailErr(sp.text)
        ELSE IF sp.next > Len(s) \/ s[sp.next] # ">" THEN MailErr("mail: unclosed angle-addr")
        ELSE MailEnd(s, sp.next + 1, MailAddress(ph.name, sp.spec))

MailParseAddress(s) ==
    LET i  == SkipSpace(s, 1)
        sp == ConsumeAddrSpec(s, i)
    IN  IF i > Len(s) THEN MailErr("mail: no address")
        ELSE IF sp.ok THEN MailEnd(s, sp.next, MailAddress(<<>>, sp.spec))
        ELSE MailNameAddr(s, i)

\* type UserParams struct { ID, Username, Email string }
UserParamsSet == [ID : UserIDStrings, Username : UsernameStrings, Email : EmailStrings]

\* *entity.User: nil, or a pointer to User{id, username, email}.
NilEntityUser == [isNil |-> TRUE, id |-> ZeroUUID, username |-> <<>>, email |-> AddrNone]
EntityUser(id, username, email) ==
    [isNil |-> FALSE, id |-> id, username |-> username, email |-> email]

NewUserRet(u, err) == [called |-> TRUE, user |-> u, err |-> err]
NotCalled == [called |-> FALSE, user |-> NilEntityUser, err |-> NoError]

\* A NewUser that validates the email before the id.
NewUser_EmailFirst(p) ==
    LET id   == UUIDParse(p.ID)
        mail == MailParseAddress(p.Email)
    IN  IF mail.err # NoError
        THEN NewUserRet(NilEntityUser, Errorf(ErrInvalidEmail, mail.err))
        ELSE IF id.err # NoError
        THEN NewUserRet(NilEntityUser, Errorf(ErrInvalidUserID, id.err))
        ELSE IF p.Username = <<>>
        THEN NewUserRet(NilEntityUser,
                 Errorf(ErrInvalidUsername, ErrorsNew("text", "username cannot be empty")))
        ELSE NewUserRet(EntityUser(id.uuid, p.Username, mail.addr), NoError)

\* A NewUser that tests the username before the email.
NewUser_UsernameFirst(p) ==
    LET id   == UUIDParse(p.ID)
        mail == MailParseAddress(p.Email)
    IN  IF id.err # NoError
        THEN NewUserRet(NilEntityUser, Errorf(ErrInvalidUserID, id.err))
        ELSE IF p.Username = <<>>
        THEN NewUserRet(NilEntityUser,
                 Errorf(ErrInvalidUsername, ErrorsNew("text", "username cannot be empty")))
        ELSE IF mail.err # NoError
        THEN NewUserRet(NilEntityUser, Errorf(ErrInvalidEmail, mail.err))
        ELSE NewUserRet(EntityUser(id.uuid, p.Username, mail.addr), NoError)

\* A NewUser that leaves the id field of the User unset.
NewUser_IDUnset(p) ==
    LET id   == UUIDParse(p.ID)
        mail == MailParseAddress(p.Email)
    IN  IF id.err # NoError
        THEN NewUserRet(NilEntityUser, Errorf(ErrInvalidUserID, id.err))
        ELSE IF mail.err # NoError
        THEN NewUserRet(NilEntityUser, Errorf(ErrInvalidEmail, mail.err))
        ELSE IF p.Username = <<>>
        THEN NewUserRet(NilEntityUser,
                 Errorf(ErrInvalidUsername, ErrorsNew("text", "username cannot be empty")))
        ELSE NewUserRet(EntityUser(ZeroUUID, p.Username, mail.addr), NoError)

\* func NewUser(params UserParams) (*User, error)
NewUser(p) ==
    LET id   == UUIDParse(p.ID)
        mail == MailParseAddress(p.Email)
    IN  IF id.err # NoError
        THEN NewUserRet(NilEntityUser, Errorf(ErrInvalidUserID, id.err))
        ELSE IF mail.err # NoError
        THEN NewUserRet(NilEntityUser, Errorf(ErrInvalidEmail, mail.err))
        ELSE IF p.Username = <<>>
        THEN NewUserRet(NilEntityUser,
                 Errorf(ErrInvalidUsername, ErrorsNew("text", "username cannot be empty")))
        ELSE NewUserRet(EntityUser(id.uuid, p.Username, mail.addr), NoError)

\* The accessors of User (value receivers).
UserID(u)       == u.id
UserUsername(u) == u.username
UserEmail(u)    == u.email

EntityInit ==
    /\ params \in UserParamsSet
    /\ newUser = NotCalled

\* user, err := entity.NewUser(params)
CallNewUser ==
    /\ ~newUser.called
    /\ newUser' = NewUser(params)
    /\ UNCHANGED <<params, repo, builtBy, last, prev, useCase, ucLast, logged>>

----------------------------------------------------------------------------
(* services.UserUseCase.CreateUser (hexagonal architecture article).        *)

\* package primary: var ( ErrCreatingUser, ErrUserAlreadyExists, ... )
PrimaryErrCreatingUser ==
    ErrorsNew("primary.ErrCreatingUser", "error creating user")
PrimaryErrUserAlreadyExists ==
    ErrorsNew("primary.ErrUserAlreadyExists", "error user already exists")

\* package secondary: the sentinel the repository port reports a duplicate with.
SecondaryErrUserAlreadyExists ==
    ErrorsNew("secondary.ErrUserAlreadyExists", "user already exists")

\* What an implementation of secondary.UserRepository may return from
\* SaveUser: nil, the duplicate sentinel bare or wrapped, or any other error,
\* among them the sentinels of package primary.
SaveUserErrors ==
    {NoError,
     SecondaryErrUserAlreadyExists,
     Errorf(SecondaryErrUserAlreadyExists, ErrorsNew("driver", "duplicate key")),
     ErrContextCanceled,
     PrimaryErrUserAlreadyExists,
     Errorf(PrimaryErrCreatingUser, SecondaryErrUserAlreadyExists)}

\* type UserUseCase struct { userRepository secondary.UserRepository }
UserRepositories == {"nil", "repository"}

\* func NewUserUseCase(userRepository) *UserUseCase
NewUserUseCase(userRepository) == [isNil |-> FALSE, userRepository |-> userRepository]

NoUseCase == [isNil |-> TRUE, userRepository |-> "nil"]

\* The users handed to the use case: nil, or what entity.NewUser built.
UseCaseUsers ==
    {NilEntityUser,
     NewUser([ID |-> Str_uuid, Username |-> <<"j", "o", "h", "n">>, Email |-> Str_john]).user,
     NewUser([ID |-> Str_uuidOther, Username |-> <<"j", "o", "h", "n">>,
              Email |-> Str_johnNamed]).user}

UseCaseRet(panicked, err, logs) == [panicked |-> panicked, err |-> err, logs |-> logs]

\* A CreateUser that compares with == instead of errors.Is.
UseCaseCreateUser_Equals(u, ctx, user, saveErr) ==
    IF u.isNil \/ u.userRepository = "nil"
    THEN UseCaseRet(TRUE, NoError, <<>>)
    ELSE IF saveErr # NoError
    THEN UseCaseRet(FALSE,
             IF saveErr = SecondaryErrUserAlreadyExists
             THEN Errorf(PrimaryErrUserAlreadyExists, saveErr)
             ELSE Errorf(PrimaryErrCreatingUser, saveErr),
             <<"error saving user: " \o saveErr.text>>)
    ELSE UseCaseRet(FALSE, NoError, <<>>)

\* func (u UserUseCase) CreateUser(ctx, user) error, given what SaveUser
\* returned.  Calling SaveUser on a nil userRepository panics.
UseCaseCreateUser(u, ctx, user, saveErr) ==
    IF u.isNil \/ u.userRepository = "nil"
    THEN UseCaseRet(TRUE, NoError, <<>>)
    ELSE IF saveErr # NoError
    THEN UseCaseRet(FALSE,
             IF ErrorsIs(saveErr, SecondaryErrUserAlreadyExists)
             THEN Errorf(PrimaryErrUserAlreadyExists, saveErr)
             ELSE Errorf(PrimaryErrCreatingUser, saveErr),
             <<"error saving user: " \o saveErr.text>>)
    ELSE UseCaseRet(FALSE, NoError, <<>>)

UseCaseCall(op, ctx, user, saveErr, panicked, err) ==
    [op |-> op, ctx |-> ctx, user |-> user, saveErr |-> saveErr,
     panicked |-> panicked, err |-> err]

NoUseCaseCall == UseCaseCall("none", "live", NilEntityUser, NoError, FALSE, NoError)

UseCaseInit ==
    /\ useCase = NoUseCase
    /\ ucLast = NoUseCaseCall
    /\ logged = <<>>

\* useCase := services.NewUserUseCase(userRepository)
CallNewUserUseCase ==
    \E r \in UserRepositories :
      /\ useCase' = NewUserUseCase(r)
      /\ ucLast' = UseCaseCall("NewUserUseCase", "live", NilEntityUser, NoError, FALSE, NoError)
      /\ UNCHANGED <<logged, repo, builtBy, last, prev, params, newUser>>

\* err := useCase.CreateUser(ctx, user)
CallUseCaseCreateUser ==
    \E ctx \in Contexts, user \in UseCaseUsers, saveErr \in SaveUserErrors :
      LET r == UseCaseCreateUser(useCase, ctx, user, saveErr) IN
      /\ Len(logged) + Len(r.logs) <= MaxLog
      /\ useCase' = useCase
      /\ ucLast' = UseCaseCall("CreateUser", ctx, user, saveErr, r.panicked, r.err)
      /\ logged' = logged \o r.logs
      /\ UNCHANGED <<repo, builtBy, last, prev, params, newUser>>

----------------------------------------------------------------------------
(* The specifications.  Each snippet is a program of its own; the variables *)
(* of the others stay as they start.                                        *)

MongoIdle ==
    /\ repo = NilRepo /\ builtBy = "none" /\ last = NoCall /\ prev = NoPrev

EntityIdle ==
    /\ params = [ID |-> <<>>, Username |-> <<>>, Email |-> <<>>]
    /\ newUser = NotCalled

UseCaseIdle ==
    /\ useCase = NoUseCase /\ ucLast = NoUseCaseCall /\ logged = <<>>

\* The repository and its callers (mongo.go, mongo_mock.go, the tests).
Init == MongoInit /\ EntityIdle /\ UseCaseIdle

Next ==
    \/ CallNewMockMongo
    \/ CallNewMongoRepo
    \/ CallCreateUser

Spec == Init /\ [][Next]_vars

\* Direct calls of MockMongo.InsertOne.
InitInsertOne == InsertOneInit /\ EntityIdle /\ UseCaseIdle

NextInsertOne == CallMockInsertOne

SpecInsertOne == InitInsertOne /\ [][NextInsertOne]_vars

\* entity.NewUser.
InitEntity == EntityInit /\ MongoIdle /\ UseCaseIdle

NextEntity == CallNewUser

SpecEntity == InitEntity /\ [][NextEntity]_vars

\* services.UserUseCase.
InitUseCase == UseCaseInit /\ MongoIdle /\ EntityIdle

NextUseCase ==
    \/ CallNewUserUseCase
    \/ CallUseCaseCreateUser

SpecUseCase == InitUseCase /\ [][NextUseCase]_vars

----------------------------------------------------------------------------
(* Properties.                                                              *)

\* The last call is CreateUser on a repository built by NewMockMongo.
MockCreateUser(c) == c.op = "CreateUser" /\ c.by = "NewMockMongo"

\* C1: on a repository built by NewMockMongo, CreateUser with a user whose
\* Email is the sentinel "error@error.com" returns a non-nil error that
\* errors.Is matches with ErrInsertingUser, whatever ID, Name and Password.
C1_SentinelEmailFails ==
    (MockCreateUser(last) /\ ~last.doc.isNil
        /\ last.doc.val.Email = emailWitchTriggersError)
    => /\ ~last.panicked
       /\ last.err # NoError
       /\ ErrorsIs(last.err, ErrInsertingUser)

C1_Witness ==
    /\ MockCreateUser(last) /\ ~last.doc.isNil
    /\ last.doc.val = [ID |-> 0, Name |-> "", Email |-> emailWitchTriggersError,
                       Password |-> ""]
    /\ prev.op = "CreateUser" /\ ~prev.doc.isNil
    /\ prev.doc.val = [ID |-> 1, Name |-> "John", Email |-> emailWitchTriggersError,
                       Password |-> "password"]
    /\ ErrorsIs(prev.err, ErrInsertingUser)

\* C2: on a repository built by NewMockMongo, CreateUser with a non-nil user
\* whose Email is not the sentinel returns nil, for every ID, Name and
\* Password, the empty ones included.
C2_OtherEmailSucceeds ==
    (MockCreateUser(last) /\ ~last.doc.isNil
        /\ last.doc.val.Email # emailWitchTriggersError)
    => /\ ~last.panicked
       /\ last.err = NoError

C2_Witness ==
    /\ MockCreateUser(last) /\ ~last.doc.isNil
    /\ last.doc.val = ZeroUser
    /\ last.err = NoError
    /\ prev.op = "CreateUser" /\ ~prev.doc.isNil
    /\ prev.doc.val = [ID |-> 1, Name |-> "John", Email |-> "john@example.com",
                       Password |-> "password"]
    /\ prev.err = NoError

\* A direct call of MockMongo.InsertOne has returned or panicked.
InsertOneDone == last.op = "InsertOne"

\* C3, as stated: the outcome of MockMongo.InsertOne is decided by the one
\* test whether the email is the sentinel: the canned error when it is, the
\* identifier otherwise, whatever else the input is.
C3_Original ==
    InsertOneDone =>
        IF last.doc.val.Email = emailWitchTriggersError
        THEN ~last.panicked /\ last.res.isNil /\ last.err = ErrInsertingUser
        ELSE ~last.panicked /\ last.err = NoError
             /\ last.res = InsertOneResult(last.doc.val.ID)

\* C3, amended: for a document that is a non-nil *User the outcome is decided
\* by the one test whether the email is the sentinel (the canned error when it
\* is, the identifier otherwise; context, ID, Name and Password change
\* nothing); a document of any other dynamic type gets the canned error
\* whatever its email, and a nil *User makes the call panic.
C3_EmailDecidesForUserPointer ==
    InsertOneDone =>
        IF last.doc.dyn # "*User"
        THEN ~last.panicked /\ last.res.isNil /\ last.err = ErrInsertingUser
        ELSE IF last.doc.isNil
        THEN last.panicked
        ELSE IF last.doc.val.Email = emailWitchTriggersError
        THEN ~last.panicked /\ last.res.isNil /\ last.err = ErrInsertingUser
        ELSE ~last.panicked /\ last.err = NoError
             /\ last.res = InsertOneResult(last.doc.val.ID)

C3_Witness ==
    /\ InsertOneDone
    /\ last.doc = ValDoc([ID |-> 1, Name |-> "John", Email |-> "john@example.com",
                          Password |-> "password"])
    /\ last.err = ErrInsertingUser

\* C4: when MockMongo.InsertOne succeeds (the document is a non-nil *User
\* with a non-sentinel email) it returns a nil error and a non-nil result
\* whose InsertedID is the ID of the user passed in, not a fixed constant.
C4_InsertedIDIsUserID ==
    (InsertOneDone /\ last.doc.dyn = "*User" /\ ~last.doc.isNil
        /\ last.doc.val.Email # emailWitchTriggersError)
    => /\ ~last.panicked
       /\ last.err = NoError
       /\ ~last.res.isNil
       /\ last.res.InsertedID = last.doc.val.ID

C4_Witness ==
    /\ InsertOneDone /\ last.doc.dyn = "*User" /\ ~last.doc.isNil
    /\ last.doc.val.ID = 1
    /\ last.doc.val.Email = "john@example.com"
    /\ last.res = InsertOneResult(1)

\* NewUser was called and failed.
NewUserFailed == newUser.called /\ newUser.err # NoError

IDParses    == UUIDParse(params.ID).err = NoError
EmailParses == MailParseAddress(params.Email).err = NoError

UseCaseReturned == ucLast.op = "CreateUser" /\ ~ucLast.panicked

\* C6: UserUseCase.CreateUser returns nil when SaveUser returns nil; an error
\* matching primary.ErrUserAlreadyExists, and not primary.ErrCreatingUser,
\* when SaveUser's error matches secondary.ErrUserAlreadyExists; an error
\* matching primary.ErrCreatingUser for every other SaveUser error.
C6_SaveUserErrorMapped ==
    UseCaseReturned =>
        IF ucLast.saveErr = NoError
        THEN ucLast.err = NoError
        ELSE IF ErrorsIs(ucLast.saveErr, SecondaryErrUserAlreadyExists)
        THEN /\ ErrorsIs(ucLast.err, PrimaryErrUserAlreadyExists)
             /\ ~ErrorsIs(ucLast.err, PrimaryErrCreatingUser)
        ELSE ErrorsIs(ucLast.err, PrimaryErrCreatingUser)

C6_Witness ==
    /\ UseCaseReturned
    /\ ucLast.saveErr # SecondaryErrUserAlreadyExists
    /\ ErrorsIs(ucLast.saveErr, SecondaryErrUserAlreadyExists)
    /\ ErrorsIs(ucLast.err, PrimaryErrUserAlreadyExists)
    /\ Len(logged) = MaxLog

\* C7: on a repository built by NewMockMongo the result of CreateUser for a
\* given user is the same whether the context passed is live, cancelled or
\* past its deadline: two calls with the same user end the same way.
C7_ContextIgnored ==
    (MockCreateUser(last) /\ MockCreateUser(prev) /\ last.doc = prev.doc)
    => /\ last.panicked = prev.panicked
       /\ last.err = prev.err

C7_Witness ==
    /\ MockCreateUser(last) /\ MockCreateUser(prev) /\ last.doc = prev.doc
    /\ ~last.doc.isNil
    /\ prev.ctx = "live" /\ last.ctx = "canceled"
    /\ last.err = NoError

\* C8: the repository returned by NewMockMongo never reaches a real storage
\* layer: building it calls nothing, CreateUser on it calls MockMongo.InsertOne
\* and nothing else (no mongo.Connect, nothing on a mongo.Collection), and for
\* a non-nil user it always ends with a result.
C8_MockReachesNoStorage ==
    /\ (last.op = "NewMockMongo" => last.calls = <<>>)
    /\ MockCreateUser(last) =>
         /\ \A i \in 1..Len(last.calls) : last.calls[i].fn = "MockMongo.InsertOne"
         /\ ~last.doc.isNil => ~last.panicked

C8_Witness ==
    /\ MockCreateUser(last) /\ ~last.doc.isNil
    /\ Len(last.calls) = 1
    /\ last.calls[1].fn = "MockMongo.InsertOne"
    /\ last.ctx = "deadline"
    /\ ~last.panicked

\* NewMongoRepo has just returned a repository.
NewMongoRepoSucceeded == last.op = "NewMongoRepo" /\ last.err = NoError

C10_CreateUserFollowsInsertOne ==
    (last.op = "CreateUser" /\ ~last.on.isNil /\ last.on.mongoCaller.type # "nil")
    => /\ Len(last.calls) = 1
       /\ last.calls[1].fn \in {"MockMongo.InsertOne", "mongo.Collection.InsertOne"}
       /\ last.calls[1].doc = last.doc
       /\ last.panicked = last.calls[1].panicked
       /\ ~last.panicked =>
            /\ (last.err = NoError) <=> (last.calls[1].err = NoError)
            /\ last.calls[1].err # NoError =>
                 last.err # NoError /\ ErrorsIs(last.err, ErrInsertingUser)

C10_Witness ==
    /\ last.op = "CreateUser" /\ last.by = "NewMongoRepo" /\ ~last.on.isNil
    /\ Len(last.calls) = 1
    /\ last.calls[1].err = ErrServerSelection
    /\ ErrorsIs(last.err, ErrInsertingUser)
    /\ last.err.text = "error inserting user: server selection error"

\* C11: MockMongo.InsertOne called with a document whose dynamic type is not
\* *User (a User value, another type, the nil interface) returns a nil result
\* and exactly ErrInsertingUser, unwrapped, whatever email the document
\* carries and whatever the context; the document is left as it was.
C11_NotAUserPointerRejected ==
    (InsertOneDone /\ last.doc.dyn # "*User")
    => /\ ~last.panicked
       /\ last.res = NilResult
       /\ last.err = ErrInsertingUser
       /\ last.err.unwrap = <<>>
       /\ last.docAfter = last.doc

C11_Witness ==
    /\ InsertOneDone
    /\ last.doc = MapDoc([ID |-> 1, Name |-> "John", Email |-> "", Password |-> ""])
    /\ last.ctx = "canceled"
    /\ last.res.isNil
    /\ last.err = ErrInsertingUser

\* NewMongoRepo has just returned; its first call was mongo.Connect.
NewMongoRepoReturned == last.op = "NewMongoRepo" /\ Len(last.calls) >= 1

\* C12: NewMongoRepo returns exactly one non-nil value: when the connect step
\* fails, a nil *MongoRepo and an error that errors.Is matches with
\* ErrConnectingToMongoDatabase; when it succeeds, a nil error and a MongoRepo
\* whose mongoCaller is the "users" collection of database "test".
C12_NewMongoRepoOneNonNil ==
    (last.op = "NewMongoRepo")
    => /\ NewMongoRepoReturned
       /\ last.calls[1].fn = "mongo.Connect"
       /\ repo.isNil <=> (last.err # NoError)
       /\ IF last.calls[1].err # NoError
          THEN /\ repo.isNil
               /\ ErrorsIs(last.err, ErrConnectingToMongoDatabase)
          ELSE /\ last.err = NoError
               /\ ~repo.isNil
               /\ repo.mongoCaller =
                      [type |-> "*mongo.Collection", db |-> "test", coll |-> "users"]

C12_Witness ==
    /\ NewMongoRepoReturned
    /\ last.uri = "mongodb://localhost:27017" /\ last.ctx = "live"
    /\ last.calls[1].err = ErrServerSelection
    /\ repo.isNil
    /\ last.err.text = "error connecting to mongo database: server selection error"

\* C13: NewUser validates ID, then Email, then Username, and reports the first
\* failure only: with an invalid ID the error matches ErrInvalidUserID (and no
\* other sentinel) whatever email and username are; with a valid ID and an
\* invalid email it matches ErrInvalidEmail (and no other) even when the
\* username is empty; ErrInvalidUsername is returned only when ID and email
\* are both valid.
C13_ValidationOrder ==
    newUser.called =>
        /\ ~IDParses =>
               /\ ErrorsIs(newUser.err, ErrInvalidUserID)
               /\ ~ErrorsIs(newUser.err, ErrInvalidEmail)
               /\ ~ErrorsIs(newUser.err, ErrInvalidUsername)
        /\ (IDParses /\ ~EmailParses) =>
               /\ ErrorsIs(newUser.err, ErrInvalidEmail)
               /\ ~ErrorsIs(newUser.err, ErrInvalidUserID)
               /\ ~ErrorsIs(newUser.err, ErrInvalidUsername)
        /\ ErrorsIs(newUser.err, ErrInvalidUsername) =>
               /\ IDParses /\ EmailParses /\ params.Username = <<>>
               /\ ~ErrorsIs(newUser.err, ErrInvalidUserID)
               /\ ~ErrorsIs(newUser.err, ErrInvalidEmail)

C13_Witness ==
    /\ NewUserFailed
    /\ params.ID = Str_uuidNotHex
    /\ params.Email = Str_noDomain
    /\ params.Username = <<>>
    /\ ErrorsIs(newUser.err, ErrInvalidUserID)
    /\ newUser.err.text = "invalid user id: invalid UUID format"

\* C14: NewUser returns exactly one of (user, error) non-nil, and a user it
\* returns gives the parameters back: ID() is the UUID parsed from params.ID,
\* Username() is params.Username and is not empty, Email() is the non-nil
\* address parsed from params.Email.
C14_AccessorsRoundTrip ==
    newUser.called =>
        /\ newUser.user.isNil <=> (newUser.err # NoError)
        /\ ~newUser.user.isNil =>
               /\ IDParses /\ EmailParses
               /\ UserID(newUser.user) = UUIDParse(params.ID).uuid
               /\ UserUsername(newUser.user) = params.Username
               /\ UserUsername(newUser.user) # <<>>
               /\ ~UserEmail(newUser.user).isNil
               /\ UserEmail(newUser.user) = MailParseAddress(params.Email).addr

C14_Witness ==
    /\ newUser.called /\ newUser.err = NoError /\ ~newUser.user.isNil
    /\ params.ID = Str_uuidUrn
    /\ params.Email = Str_johnNamed
    /\ UserID(newUser.user) =
          <<107, 167, 184, 16, 157, 173, 17, 209, 128, 180, 0, 192, 79, 212, 48, 200>>
    /\ UserUsername(newUser.user) = <<"j", "o", "h", "n">>
    /\ UserEmail(newUser.user).Name = <<"J", "o", "h", "n", " ", "D", "o", "e">>
    /\ UserEmail(newUser.user).Address = Str_john

\* C15: the mock-backed repository is stateless: after any calls on one
\* repository from NewMockMongo, the result of the next CreateUser depends
\* only on the email of that call's user: it fails exactly when the email is
\* the sentinel, and two calls with the same email end the same way, whatever
\* came before; so the same user created twice succeeds twice, and a failed
\* call with the sentinel email changes nothing for the next one.
C15_MockStateless ==
    (MockCreateUser(last) /\ ~last.doc.isNil)
    => /\ ~last.panicked
       /\ (last.err = NoError) <=> (last.doc.val.Email # emailWitchTriggersError)
       /\ (MockCreateUser(prev) /\ ~prev.doc.isNil
              /\ prev.doc.val.Email = last.doc.val.Email)
          => (prev.panicked = last.panicked /\ prev.err = last.err)

C15_Witness ==
    /\ MockCreateUser(last) /\ MockCreateUser(prev)
    /\ last.doc = PtrDoc(PtrTo([ID |-> 1, Name |-> "John", Email |-> "john@example.com",
                                 Password |-> "password"]))
    /\ prev.doc = last.doc
    /\ prev.ctx = "live" /\ last.ctx = "live"
    /\ prev.err = NoError /\ last.err = NoError

\* C16: MongoRepo.CreateUser on a mock-backed repository, whether it succeeds
\* or fails, leaves the User passed in (ID, Name, Email, Password) and the
\* mongoCaller field of the repository as they were.
C16_CreateUserChangesNothing ==
    MockCreateUser(last)
    => /\ last.docAfter = last.doc
       /\ repo = last.on
       /\ repo.mongoCaller = last.on.mongoCaller

C16_Witness ==
    /\ MockCreateUser(last)
    /\ last.doc = PtrDoc(PtrTo([ID |-> 1, Name |-> "John",
                                 Email |-> emailWitchTriggersError,
                                 Password |-> "password"]))
    /\ last.err # NoError
    /\ last.docAfter.val.Password = "password"
    /\ repo.mongoCaller.type = "MockMongo"

====
